---- MODULE Spec2Model ----
(***************************************************************************)
(* A model of tasks.py, the release automation of ludusavi: the tasks      *)
(* (version, legal, flatpak, lang, clean, docs, prerelease, release,       *)
(* release_flatpak, release_winget), the files they read and write, and    *)
(* the external commands they run.                                         *)
(*                                                                         *)
(* Text is a sequence of one-character strings.  A file read with          *)
(* splitlines() is a sequence of lines.  An external command is a step     *)
(* whose outcome (success or failure) the environment chooses.             *)
(***************************************************************************)
EXTENDS Integers, Sequences, FiniteSets, TLC

VARIABLES
    task,       \* the task invoked from the command line
    pc,         \* the statement the running function is at
    stack,      \* return labels of the calls in progress (prerelease -> legal, ...)
    status,     \* "running", "done", "raised" (uncaught exception), "exit1" (sys.exit(1))
    arg,        \* the task's arguments: new_version, update_lang
    ver,        \* the local variable `version` of legal, release, release_*
    idx,        \* the position of the loop over `commands` in docs_cli, docs_schema
    response,   \* what the operator types at confirm's prompt
    cargo,      \* Cargo.toml, as its lines
    changelog,  \* CHANGELOG.md, as its characters
    bugYaml,    \* .github/ISSUE_TEMPLATE/bug.yaml, as its lines
    metainfo,   \* the two metainfo.xml files
    dist,       \* the dist directory: NoDir, or file name -> content
    langDir,    \* the lang directory: file name -> bytes
    remote,     \* the translations the translation platform would export
    docsDir,    \* the files written under docs/
    flatpakRepo,\* the checkout release_flatpak works in
    wingetRepo, \* the checkout release_winget works in
    log,        \* the external commands run and the files written, in order
    out,        \* what the function under study returned or raised
    pulled,     \* history: the lang directory right after the pull
    dist0,      \* history: the dist directory when the task was invoked
    bug0        \* history: bug.yaml when the task was invoked

ctl == <<task, pc, stack, status, arg, ver, idx, response>>
repo == <<cargo, changelog, bugYaml, metainfo>>
world == <<dist, langDir, remote, docsDir, flatpakRepo, wingetRepo>>
hist == <<pulled, dist0, bug0>>
vars == <<ctl, repo, world, log, out, hist>>

----------------------------------------------------------------------------
(* Text helpers: str.startswith, str.replace, str.strip.                   *)

StartsWith(s, p) == Len(s) >= Len(p) /\ SubSeq(s, 1, Len(p)) = p

MatchAt(s, p, i) == i + Len(p) - 1 <= Len(s) /\ SubSeq(s, i, i + Len(p) - 1) = p

RECURSIVE ReplaceFrom(_, _, _, _)
ReplaceFrom(s, old, new, i) ==
    IF i > Len(s) THEN <<>>
    ELSE IF MatchAt(s, old, i) THEN new \o ReplaceFrom(s, old, new, i + Len(old))
    ELSE <<s[i]>> \o ReplaceFrom(s, old, new, i + 1)

\* str.replace(old, new): every non-overlapping occurrence, left to right.
StrReplace(s, old, new) == ReplaceFrom(s, old, new, 1)

RECURSIVE LStrip(_, _)
LStrip(s, cs) == IF s # <<>> /\ Head(s) \in cs THEN LStrip(Tail(s), cs) ELSE s

RECURSIVE RStrip(_, _)
RStrip(s, cs) ==
    IF s # <<>> /\ s[Len(s)] \in cs THEN RStrip(SubSeq(s, 1, Len(s) - 1), cs) ELSE s

\* str.strip(chars): characters of cs removed from both ends.
Strip(s, cs) == RStrip(LStrip(s, cs), cs)

RECURSIVE Join(_, _)
Join(lines, sep) ==
    IF lines = <<>> THEN <<>>
    ELSE IF Len(lines) = 1 THEN lines[1]
    ELSE lines[1] \o sep \o Join(Tail(lines), sep)

\* The first index i >= from with s[i] = c, or 0.
RECURSIVE IndexOf(_, _, _)
IndexOf(s, c, from) ==
    IF from > Len(s) THEN 0
    ELSE IF s[from] = c THEN from
    ELSE IndexOf(s, c, from + 1)

\* The last index i >= from with s[i] = c, or 0.
RECURSIVE LastIndexOf(_, _, _)
LastIndexOf(s, c, from) ==
    IF Len(s) < from THEN 0
    ELSE IF s[Len(s)] = c THEN Len(s)
    ELSE LastIndexOf(SubSeq(s, 1, Len(s) - 1), c, from)

Quote == "\""
LF == "\n"
CR == "\r"

Return(v) == [kind |-> "return", val |-> v, err |-> ""]
Raise(e) == [kind |-> "raise", val |-> <<>>, err |-> e]
NoResult == [kind |-> "none", val |-> <<>>, err |-> ""]

----------------------------------------------------------------------------
(* get_version                                                             *)

VersionEq == <<"v", "e", "r", "s", "i", "o", "n", " ", "=">>
VersionEqSp == VersionEq \o <<" ">>

RECURSIVE GetVersionFrom(_, _)
GetVersionFrom(lines, i) ==
    IF i > Len(lines) THEN Raise("Could not determine version")
    ELSE IF StartsWith(lines[i], VersionEq)
         THEN Return(Strip(StrReplace(lines[i], VersionEqSp, <<>>), {Quote}))
    ELSE GetVersionFrom(lines, i + 1)

get_version(lines) == GetVersionFrom(lines, 1)


\* re.sub('version = ".+"', 'version = "<new>"', content, count=1), line by line
\* ('.' matches no line break): the leftmost `version = "`, then the longest
\* run of characters that still leaves a closing quote.
VersionPattern == VersionEqSp \o <<Quote>>

VersionPatternEnd(line, i) ==
    IF MatchAt(line, VersionPattern, i)
    THEN LastIndexOf(line, Quote, i + Len(VersionPattern) + 1)
    ELSE 0

RECURSIVE VersionPatternStart(_, _)
VersionPatternStart(line, i) ==
    IF i > Len(line) THEN 0
    ELSE IF VersionPatternEnd(line, i) # 0 THEN i
    ELSE VersionPatternStart(line, i + 1)

SubVersionInLine(line, new) ==
    LET i == VersionPatternStart(line, 1)
        j == VersionPatternEnd(line, i)
    IN  SubSeq(line, 1, i - 1) \o VersionPattern \o new \o <<Quote>>
            \o SubSeq(line, j + 1, Len(line))

RECURSIVE SubCargoVersion(_, _)
SubCargoVersion(lines, new) ==
    IF lines = <<>> THEN <<>>
    ELSE IF VersionPatternStart(Head(lines), 1) # 0
         THEN <<SubVersionInLine(Head(lines), new)>> \o Tail(lines)
    ELSE <<Head(lines)>> \o SubCargoVersion(Tail(lines), new)

----------------------------------------------------------------------------
(* latest_changelog                                                        *)

Whitespace == {" ", "\t", LF, CR}

\* str.splitlines(): a line ends at \n, \r or \r\n; no empty last line.
RECURSIVE SplitFrom(_, _, _)
SplitFrom(s, i, cur) ==
    IF i > Len(s) THEN (IF cur = <<>> THEN <<>> ELSE <<cur>>)
    ELSE IF s[i] = CR /\ i < Len(s) /\ s[i + 1] = LF
         THEN <<cur>> \o SplitFrom(s, i + 2, <<>>)
    ELSE IF s[i] \in {LF, CR} THEN <<cur>> \o SplitFrom(s, i + 1, <<>>)
    ELSE SplitFrom(s, i + 1, Append(cur, s[i]))

SplitLines(s) == SplitFrom(s, 1, <<>>)

IsHeading(line) == StartsWith(line, <<"#">>)

\* The loop of latest_changelog: `header` is its flag.
RECURSIVE CollectLines(_, _, _)
CollectLines(lines, i, header) ==
    IF i > Len(lines) THEN <<>>
    ELSE IF IsHeading(lines[i])
         THEN (IF header THEN <<>> ELSE CollectLines(lines, i + 1, TRUE))
    ELSE <<lines[i]>> \o CollectLines(lines, i + 1, header)

latest_changelog(content) ==
    Strip(Join(CollectLines(SplitLines(content), 1, FALSE), <<LF>>), Whitespace)

\* textwrap.indent(text, prefix): the prefix before every line that is not
\* only whitespace, line ends kept.
RECURSIVE LineEnd(_, _)
LineEnd(s, i) ==
    IF i > Len(s) THEN Len(s)
    ELSE IF s[i] = CR /\ i < Len(s) /\ s[i + 1] = LF THEN i + 1
    ELSE IF s[i] \in {LF, CR} THEN i
    ELSE LineEnd(s, i + 1)

RECURSIVE IndentFrom(_, _, _)
IndentFrom(s, i, prefix) ==
    IF i > Len(s) THEN <<>>
    ELSE LET e == LineEnd(s, i)
             line == SubSeq(s, i, e)
         IN  (IF Strip(line, Whitespace) # <<>> THEN prefix ELSE <<>>)
                 \o line \o IndentFrom(s, e + 1, prefix)

Indent(text, prefix) == IndentFrom(text, 1, prefix)

----------------------------------------------------------------------------
(* confirm                                                                 *)

UpperCase == <<"A", "B", "C", "D", "E", "F", "G", "H", "I", "J", "K", "L", "M",
               "N", "O", "P", "Q", "R", "S", "T", "U", "V", "W", "X", "Y", "Z">>
LowerCase == <<"a", "b", "c", "d", "e", "f", "g", "h", "i", "j", "k", "l", "m",
               "n", "o", "p", "q", "r", "s", "t", "u", "v", "w", "x", "y", "z">>

LowerChar(c) ==
    IF \E i \in DOMAIN UpperCase : UpperCase[i] = c
    THEN LowerCase[CHOOSE i \in DOMAIN UpperCase : UpperCase[i] = c]
    ELSE c

\* str.lower()
Lower(s) == [i \in DOMAIN s |-> LowerChar(s[i])]

ReleaseWord == <<"r", "e", "l", "e", "a", "s", "e", " ">>

\* As confirm, but the response is accepted when the prompt starts with it.
confirm_prefix(prompt, typed) == StartsWith(Lower(prompt), Lower(typed))

\* confirm(prompt) lets the caller go on (TRUE) or calls sys.exit(1) (FALSE).
confirm(prompt, typed) == Lower(typed) = Lower(prompt)

----------------------------------------------------------------------------
(* The patches of prerelease to CHANGELOG.md, bug.yaml and metainfo.xml    *)

RECURSIVE FindFrom(_, _, _)
FindFrom(s, p, i) ==
    IF i + Len(p) - 1 > Len(s) THEN 0
    ELSE IF MatchAt(s, p, i) THEN i
    ELSE FindFrom(s, p, i + 1)

\* re.sub of a pattern without special characters, count=1.
ReplaceFirst(s, old, new) ==
    LET i == FindFrom(s, old, 1)
    IN  IF i = 0 THEN s
        ELSE SubSeq(s, 1, i - 1) \o new \o SubSeq(s, i + Len(old), Len(s))

Unreleased == <<"#", "#", " ", "U", "n", "r", "e", "l", "e", "a", "s", "e", "d">>
Today == "<date>"

SubUnreleased(content, new) ==
    ReplaceFirst(content, Unreleased,
                 <<"#", "#", " ", "v">> \o new \o <<" ", "(", Today, ")">>)

\* A line of bug.yaml: one ending in `options:`, a list item at the
\* indentation of eight spaces the patterns spell out (`        - <text>`),
\* or any other line.
OptionsLine == [kind |-> "options", text |-> <<>>]
Item(t) == [kind |-> "item", text |-> t]
OtherLine == [kind |-> "line", text |-> <<>>]
OtherText == <<"O", "t", "h", "e", "r">>

Digits == {"0", "1", "2", "3", "4", "5", "6", "7", "8", "9"}

\* \d+ at i: the index after the digits, or 0.
RECURSIVE DigitsEnd(_, _)
DigitsEnd(s, i) ==
    IF i > Len(s) \/ s[i] \notin Digits THEN 0
    ELSE IF i + 1 > Len(s) \/ s[i + 1] \notin Digits THEN i + 1
    ELSE DigitsEnd(s, i + 1)

DotThenDigitsEnd(s, i) ==
    IF i = 0 \/ i > Len(s) \/ s[i] # "." THEN 0 ELSE DigitsEnd(s, i + 1)

\* v\d+\.\d+\.\d+ at the start of an item's text: the index after it, or 0.
VersionEntryEnd(t) ==
    IF t # <<>> /\ t[1] = "v"
    THEN DotThenDigitsEnd(t, DotThenDigitsEnd(t, DigitsEnd(t, 2)))
    ELSE 0

\* (options:)(\n        - v\d+\.\d+\.\d+): the index of the options line, or 0.
RECURSIVE FindOptions(_, _)
FindOptions(lines, i) ==
    IF i + 1 > Len(lines) THEN 0
    ELSE IF /\ lines[i].kind = "options"
            /\ lines[i + 1].kind = "item"
            /\ VersionEntryEnd(lines[i + 1].text) # 0
         THEN i
    ELSE FindOptions(lines, i + 1)

InsertAt(lines, i, x) == SubSeq(lines, 1, i) \o <<x>> \o SubSeq(lines, i + 1, Len(lines))

RemoveAt(lines, i) == SubSeq(lines, 1, i - 1) \o SubSeq(lines, i + 1, Len(lines))

SubOptionsInsert(lines, new) ==
    LET i == FindOptions(lines, 1)
    IN  IF i = 0 THEN lines ELSE InsertAt(lines, i, Item(<<"v">> \o new))

\* - v\d+\.\d+\.\d+\n        (- Other): the index of the version item, or 0.
RECURSIVE FindLastVersion(_, _)
FindLastVersion(lines, i) ==
    IF i + 1 > Len(lines) THEN 0
    ELSE IF /\ lines[i].kind = "item"
            /\ VersionEntryEnd(lines[i].text) = Len(lines[i].text) + 1
            /\ lines[i + 1].kind = "item"
            /\ StartsWith(lines[i + 1].text, OtherText)
         THEN i
    ELSE FindLastVersion(lines, i + 1)

\* As SubOptionsRemove, but the item after `options:` is the one removed.
SubOptionsRemoveFirst(lines) ==
    LET i == FindOptions(lines, 1)
    IN  IF i = 0 THEN lines ELSE RemoveAt(lines, i + 1)

SubOptionsRemove(lines) ==
    LET i == FindLastVersion(lines, 1)
    IN  IF i = 0 THEN lines ELSE RemoveAt(lines, i)

\* A metainfo.xml: the version in its screenshot URL and its <release> entries.
SubScreenshot(m, new) == [m EXCEPT !.shot = new]

SubReleases(m, new) == [m EXCEPT !.releases = <<new>> \o @]


----------------------------------------------------------------------------
(* Files and directories                                                   *)

EmptyFiles == [n \in {} |-> 0]
NoDir == [exists |-> FALSE, files |-> EmptyFiles]
EmptyDir == [exists |-> TRUE, files |-> EmptyFiles]

Names(d) == DOMAIN d.files

Restrict(d, S) == [d EXCEPT !.files = [n \in S |-> d.files[n]]]

Put(d, n, c) ==
    [d EXCEPT !.files = [m \in Names(d) \cup {n} |-> IF m = n THEN c ELSE d.files[m]]]

\* f"ludusavi-v{version}-legal.txt", f"ludusavi-v{version}-legal.zip"
LegalTxt(v) == [base |-> "ludusavi-v<version>-legal.txt", version |-> v]
LegalZip(v) == [base |-> "ludusavi-v<version>-legal.zip", version |-> v]
GeneratedSources == [base |-> "generated-sources.json", version |-> <<>>]
StaleFile == [base |-> "ludusavi-win64.zip", version |-> <<>>]
NoName == [base |-> "", version |-> <<>>]

Text(body) == [type |-> "text", entry |-> NoName, body |-> body]
Zip(entry, body) == [type |-> "zip", entry |-> entry, body |-> body]
Blob == [type |-> "blob", entry |-> NoName, body |-> <<>>]

\* re.sub(r"C:\\Users\\[^\\]+", "~", raw): every `C:\Users\` followed by at
\* least one character that is no backslash, up to the next backslash.
Backslash == "\\"
UsersDir == <<"C", ":", Backslash, "U", "s", "e", "r", "s", Backslash>>

RECURSIVE NotBackslashEnd(_, _)
NotBackslashEnd(s, i) ==
    IF i > Len(s) \/ s[i] = Backslash THEN i ELSE NotBackslashEnd(s, i + 1)

RECURSIVE NormalizeFrom(_, _)
NormalizeFrom(s, i) ==
    IF i > Len(s) THEN <<>>
    ELSE IF MatchAt(s, UsersDir, i) /\ NotBackslashEnd(s, i + Len(UsersDir)) > i + Len(UsersDir)
         THEN <<"~">> \o NormalizeFrom(s, NotBackslashEnd(s, i + Len(UsersDir)))
    ELSE <<s[i]>> \o NormalizeFrom(s, i + 1)

Normalize(raw) == NormalizeFrom(raw, 1)

\* Path.read_text("utf8"): the bytes decoded, every \r\n and \r read as \n
\* (text mode); bytes that are not UTF-8 raise UnicodeDecodeError.
InvalidByte == "<ff>"

RECURSIVE UniversalNewlines(_, _)
UniversalNewlines(b, i) ==
    IF i > Len(b) THEN <<>>
    ELSE IF b[i] = CR /\ i < Len(b) /\ b[i + 1] = LF
         THEN <<LF>> \o UniversalNewlines(b, i + 2)
    ELSE IF b[i] = CR THEN <<LF>> \o UniversalNewlines(b, i + 1)
    ELSE <<b[i]>> \o UniversalNewlines(b, i + 1)

Decodable(b) == \A i \in DOMAIN b : b[i] # InvalidByte

read_text(b) == UniversalNewlines(b, 1)

\* LANG.glob("*.ftl") and `"en-US.ftl" in file.name`
FtlSuffix == <<".", "f", "t", "l">>
EnUsFtl == <<"e", "n", "-", "U", "S">> \o FtlSuffix

EndsWith(s, p) == Len(s) >= Len(p) /\ SubSeq(s, Len(s) - Len(p) + 1, Len(s)) = p

Globbed(dir) == {n \in DOMAIN dir : EndsWith(n, FtlSuffix)}

\* As Skipped, but no file is skipped.
SkippedNone(n) == FALSE

Skipped(n) == FindFrom(n, EnUsFtl, 1) # 0

\* The dictionary `mapping` of lang: content -> the set of files holding it.
Mapping(dir) ==
    LET files == {n \in Globbed(dir) : ~Skipped(n)}
        keys == {read_text(dir[n]) : n \in files}
    IN  [c \in keys |-> {n \in files : read_text(dir[n]) = c}]

\* As Unlinked, but one file of every group is kept.
UnlinkedButOne(dir) ==
    LET mapping == Mapping(dir)
    IN  UNION {mapping[c] \ {CHOOSE n \in mapping[c] : TRUE} :
                  c \in {k \in DOMAIN mapping : Cardinality(mapping[k]) > 1}}

\* The files the second loop of lang unlinks.
Unlinked(dir) ==
    LET mapping == Mapping(dir)
    IN  UNION {mapping[c] : c \in {k \in DOMAIN mapping : Cardinality(mapping[k]) > 1}}

\* The first loop of lang reads every file it does not skip.
LangReadable(dir) == \A n \in Globbed(dir) : Skipped(n) \/ Decodable(dir[n])

Remove(dir, S) == [n \in DOMAIN dir \ S |-> dir[n]]

Overlay(dir, new) ==
    [n \in DOMAIN dir \cup DOMAIN new |-> IF n \in DOMAIN new THEN new[n] ELSE dir[n]]

----------------------------------------------------------------------------
(* Control: the statement a task is at, calls and returns, exceptions      *)

fixed == <<task, arg, response, remote>>

Cmd(c, ok) == [kind |-> "run", what |-> c, ok |-> ok]
Wrote(f) == [kind |-> "write", what |-> f, ok |-> TRUE]

At(l) == status = "running" /\ pc = l

Goto(l) == pc' = l /\ UNCHANGED <<stack, status>>

Throw == status' = "raised" /\ UNCHANGED <<pc, stack>>

Exit1 == status' = "exit1" /\ UNCHANGED <<pc, stack>>

\* The function returns: to its caller, or the task is done.
Ret ==
    IF stack = <<>>
    THEN status' = "done" /\ UNCHANGED <<pc, stack>>
    ELSE pc' = Head(stack) /\ stack' = Tail(stack) /\ UNCHANGED status

Call(f, back) == pc' = f /\ stack' = <<back>> \o stack /\ UNCHANGED status

\* ctx.run(cmd) with warn=True: a failed command returns like any other.
CtxRunWarn(cmd, ok, cont) == log' = Append(log, Cmd(cmd, ok)) /\ cont

\* ctx.run(cmd): the command runs; when it fails, UnexpectedExit is raised.
CtxRun(cmd, ok, cont) ==
    /\ log' = Append(log, Cmd(cmd, ok))
    /\ IF ok THEN cont ELSE Throw


----------------------------------------------------------------------------
(* version                                                                 *)

version ==
    /\ At("version")
    /\ out' = get_version(cargo)
    /\ IF get_version(cargo).kind = "raise" THEN Throw ELSE Ret
    /\ UNCHANGED <<fixed, ver, idx, repo, dist, langDir, docsDir, flatpakRepo,
                   wingetRepo, log, hist>>

\* `version = get_version()` at the head of legal, release, release_flatpak
\* and release_winget.
ReadVersion(l, next) ==
    /\ At(l)
    /\ IF get_version(cargo).kind = "raise"
       THEN Throw /\ UNCHANGED ver
       ELSE ver' = get_version(cargo).val /\ Goto(next)
    /\ UNCHANGED <<fixed, idx, repo, dist, langDir, docsDir, flatpakRepo,
                   wingetRepo, log, out, hist>>

----------------------------------------------------------------------------
(* legal                                                                   *)

\* What `cargo lichking bundle` may write.
BundleTexts ==
    { <<"M", "I", "T">>,
      UsersDir \o <<"b", "o", "b", Backslash, "x">>,
      <<"a", " ">> \o UsersDir \o <<"b", LF, "M", "I", "T">> }

legal_version == ReadVersion("legal", "legal_bundle")

\* As legal_bundle, without the try/except around ctx.run.
legal_bundle_uncaught ==
    /\ At("legal_bundle")
    /\ \E ok \in BOOLEAN, written \in BOOLEAN, raw \in BundleTexts :
          /\ ok => written
          /\ written => dist.exists
          /\ CtxRun("cargo lichking bundle", ok, Goto("legal_normalize"))
          /\ dist' = IF written THEN Put(dist, LegalTxt(ver), Text(raw)) ELSE dist
    /\ UNCHANGED <<fixed, ver, idx, repo, langDir, docsDir, flatpakRepo,
                   wingetRepo, out, hist>>

\* try: ctx.run('cargo lichking bundle --file "{txt_path}"') except Exception: pass
\* The command writes the file or not; it cannot write into a missing dist.
legal_bundle ==
    /\ At("legal_bundle")
    /\ \E ok \in BOOLEAN, written \in BOOLEAN, raw \in BundleTexts :
          /\ ok => written
          /\ written => dist.exists
          /\ log' = Append(log, Cmd("cargo lichking bundle", ok))
          /\ dist' = IF written THEN Put(dist, LegalTxt(ver), Text(raw)) ELSE dist
    /\ Goto("legal_normalize")
    /\ UNCHANGED <<fixed, ver, idx, repo, langDir, docsDir, flatpakRepo,
                   wingetRepo, out, hist>>

\* raw = txt_path.read_text(); normalized = re.sub(...); txt_path.write_text(normalized)
legal_normalize ==
    /\ At("legal_normalize")
    /\ IF LegalTxt(ver) \in Names(dist)
       THEN /\ dist' = Put(dist, LegalTxt(ver),
                           Text(Normalize(read_text(dist.files[LegalTxt(ver)].body))))
            /\ log' = Append(log, Wrote("legal.txt"))
            /\ Goto("legal_zip")
       ELSE Throw /\ UNCHANGED <<dist, log>>
    /\ UNCHANGED <<fixed, ver, idx, repo, langDir, docsDir, flatpakRepo,
                   wingetRepo, out, hist>>

\* with zipfile.ZipFile(zip_path, "w") as zip: zip.write(txt_path, txt_name)
legal_zip ==
    /\ At("legal_zip")
    /\ dist' = Put(dist, LegalZip(ver), Zip(LegalTxt(ver), dist.files[LegalTxt(ver)].body))
    /\ log' = Append(log, Wrote("legal.zip"))
    /\ Ret
    /\ UNCHANGED <<fixed, ver, idx, repo, langDir, docsDir, flatpakRepo,
                   wingetRepo, out, hist>>

legal == legal_version \/ legal_bundle \/ legal_normalize \/ legal_zip

----------------------------------------------------------------------------
(* flatpak                                                                 *)

\* The generator writes dist/generated-sources.json when it succeeds.
flatpak ==
    /\ At("flatpak")
    /\ \E ok \in BOOLEAN :
          /\ ok => dist.exists
          /\ CtxRun("flatpak-cargo-generator", ok, Ret)
          /\ dist' = IF ok THEN Put(dist, GeneratedSources, Blob) ELSE dist
    /\ UNCHANGED <<fixed, ver, idx, repo, langDir, docsDir, flatpakRepo,
                   wingetRepo, out, hist>>

----------------------------------------------------------------------------
(* lang                                                                    *)

\* ctx.run('java -jar crowdin-cli.jar pull --export-only-approved'): the
\* translations the platform exports replace the local ones.
lang_pull ==
    /\ At("lang")
    /\ \E ok \in BOOLEAN :
          /\ CtxRun("crowdin pull", ok, Goto("lang_mapping"))
          /\ langDir' = IF ok THEN Overlay(langDir, remote) ELSE langDir
          /\ pulled' = langDir'
    /\ UNCHANGED <<fixed, ver, idx, repo, dist, docsDir, flatpakRepo,
                   wingetRepo, out, dist0, bug0>>

\* Both loops: the mapping is built from every file read, then every file
\* of a group of more than one is unlinked.
lang_mapping ==
    /\ At("lang_mapping")
    /\ IF LangReadable(langDir)
       THEN langDir' = Remove(langDir, Unlinked(langDir)) /\ Ret
       ELSE Throw /\ UNCHANGED langDir
    /\ UNCHANGED <<fixed, ver, idx, repo, dist, docsDir, flatpakRepo,
                   wingetRepo, log, out, hist>>

lang == lang_pull \/ lang_mapping

----------------------------------------------------------------------------
(* clean                                                                   *)

\* if DIST.exists(): shutil.rmtree(DIST, ignore_errors=True), which removes
\* what it can and reports nothing; then DIST.mkdir(), which raises
\* FileExistsError when the directory is still there.
clean ==
    /\ At("clean")
    /\ \E left \in {NoDir} \cup {Restrict(dist, S) : S \in SUBSET Names(dist)} :
          /\ left.exists => dist.exists
          /\ IF left.exists
             THEN dist' = left /\ Throw /\ UNCHANGED log
             ELSE dist' = EmptyDir /\ Ret /\ log' = Append(log, Wrote("dist"))
    /\ UNCHANGED <<fixed, ver, idx, repo, langDir, docsDir, flatpakRepo,
                   wingetRepo, out, hist>>

----------------------------------------------------------------------------
(* docs, docs_cli, docs_schema                                             *)

CliCommands ==
    << "--help", "backup --help", "restore --help", "complete --help",
       "backups --help", "find --help", "manifest --help", "cloud --help",
       "wrap --help", "api --help", "schema --help" >>

SchemaCommands == << "api-input", "api-output", "config", "general-output" >>

docs_start ==
    /\ At("docs")
    /\ Call("docs_cli", "docs_2")
    /\ UNCHANGED <<fixed, ver, idx, repo, world, log, out, hist>>

docs_2 ==
    /\ At("docs_2")
    /\ Call("docs_schema", "docs_end")
    /\ UNCHANGED <<fixed, ver, idx, repo, world, log, out, hist>>

docs_end ==
    /\ At("docs_end")
    /\ Ret
    /\ UNCHANGED <<fixed, ver, idx, repo, world, log, out, hist>>

docs_cli_start ==
    /\ At("docs_cli")
    /\ idx' = 1
    /\ Goto("docs_cli_run")
    /\ UNCHANGED <<fixed, ver, repo, world, log, out, hist>>

\* output = ctx.run(f"cargo run -- {command}"), for each command in turn
docs_cli_run ==
    /\ At("docs_cli_run")
    /\ \E ok \in BOOLEAN : CtxRun(CliCommands[idx], ok, Goto("docs_cli_lines"))
    /\ UNCHANGED <<fixed, ver, idx, repo, world, out, hist>>

\* lines.append(...) for the command's output, then the next command
docs_cli_lines ==
    /\ At("docs_cli_lines")
    /\ IF idx = Len(CliCommands)
       THEN Goto("docs_cli_write") /\ UNCHANGED idx
       ELSE idx' = idx + 1 /\ Goto("docs_cli_run")
    /\ UNCHANGED <<fixed, ver, repo, world, log, out, hist>>

docs_cli_write ==
    /\ At("docs_cli_write")
    /\ docsDir' = docsDir \cup {"cli.md"}
    /\ log' = Append(log, Wrote("cli.md"))
    /\ Ret
    /\ UNCHANGED <<fixed, ver, idx, repo, dist, langDir, flatpakRepo, wingetRepo,
                   out, hist>>

docs_cli == docs_cli_start \/ docs_cli_run \/ docs_cli_lines \/ docs_cli_write

docs_schema_start ==
    /\ At("docs_schema")
    /\ idx' = 1
    /\ Goto("docs_schema_run")
    /\ UNCHANGED <<fixed, ver, repo, world, log, out, hist>>

\* output = ctx.run(f"cargo run -- schema --format yaml {command}")
docs_schema_run ==
    /\ At("docs_schema_run")
    /\ \E ok \in BOOLEAN : CtxRun(SchemaCommands[idx], ok, Goto("docs_schema_write"))
    /\ UNCHANGED <<fixed, ver, idx, repo, world, out, hist>>

\* with doc.open("w") as f: f.write(output.stdout.strip() + "\n")
docs_schema_write ==
    /\ At("docs_schema_write")
    /\ docsDir' = docsDir \cup {SchemaCommands[idx]}
    /\ log' = Append(log, Wrote(SchemaCommands[idx]))
    /\ IF idx = Len(SchemaCommands)
       THEN Ret /\ UNCHANGED idx
       ELSE idx' = idx + 1 /\ Goto("docs_schema_run")
    /\ UNCHANGED <<fixed, ver, repo, dist, langDir, flatpakRepo, wingetRepo,
                   out, hist>>

docs_schema == docs_schema_start \/ docs_schema_run \/ docs_schema_write

docs == docs_start \/ docs_2 \/ docs_end \/ docs_cli \/ docs_schema


----------------------------------------------------------------------------
(* prerelease                                                              *)

MetainfoFiles == {"assets/linux", "assets/flatpak"}

\* replace_pattern_in_file(file, old, new): read, re.sub with count=1, write.
\* `patched` is the result of the re.sub on the file's content.
replace_pattern_in_file(l, next, file, patched) ==
    /\ At(l)
    /\ cargo' = IF file = "Cargo.toml" THEN patched ELSE cargo
    /\ changelog' = IF file = "CHANGELOG.md" THEN patched ELSE changelog
    /\ bugYaml' = IF file = "bug.yaml" THEN patched ELSE bugYaml
    /\ metainfo' = IF file = "metainfo.xml" THEN patched ELSE metainfo
    /\ log' = Append(log, Wrote(file))
    /\ Goto(next)
    /\ UNCHANGED <<fixed, ver, idx, world, out, hist>>

pre_cargo ==
    replace_pattern_in_file("prerelease", "pre_changelog", "Cargo.toml",
                            SubCargoVersion(cargo, arg.new_version))

pre_changelog ==
    replace_pattern_in_file("pre_changelog", "pre_bug_insert", "CHANGELOG.md",
                            SubUnreleased(changelog, arg.new_version))

pre_bug_insert ==
    replace_pattern_in_file("pre_bug_insert", "pre_bug_remove", "bug.yaml",
                            SubOptionsInsert(bugYaml, arg.new_version))

pre_bug_remove ==
    replace_pattern_in_file("pre_bug_remove", "pre_metainfo", "bug.yaml",
                            SubOptionsRemove(bugYaml))

\* The loop over the two metainfo files, two patches each.
pre_metainfo ==
    replace_pattern_in_file("pre_metainfo", "pre_build", "metainfo.xml",
        [f \in MetainfoFiles |->
            SubReleases(SubScreenshot(metainfo[f], arg.new_version), arg.new_version)])

\* ctx.run("cargo build")
pre_build ==
    /\ At("pre_build")
    /\ \E ok \in BOOLEAN : CtxRun("cargo build", ok, Goto("pre_clean"))
    /\ UNCHANGED <<fixed, ver, idx, repo, world, out, hist>>

\* clean(ctx); legal(ctx); flatpak(ctx); docs(ctx)
pre_calls ==
    /\ \/ At("pre_clean") /\ Call("clean", "pre_legal")
       \/ At("pre_legal") /\ Call("legal", "pre_flatpak")
       \/ At("pre_flatpak") /\ Call("flatpak", "pre_docs")
       \/ At("pre_docs") /\ Call("docs", "pre_lang")
    /\ UNCHANGED <<fixed, ver, idx, repo, world, log, out, hist>>

\* if update_lang: lang(ctx)
pre_lang ==
    /\ At("pre_lang")
    /\ IF arg.update_lang THEN Call("lang", "pre_end") ELSE Ret
    /\ UNCHANGED <<fixed, ver, idx, repo, world, log, out, hist>>

pre_end ==
    /\ At("pre_end")
    /\ Ret
    /\ UNCHANGED <<fixed, ver, idx, repo, world, log, out, hist>>

prerelease ==
    \/ pre_cargo \/ pre_changelog \/ pre_bug_insert \/ pre_bug_remove
    \/ pre_metainfo \/ pre_build \/ pre_calls \/ pre_lang \/ pre_end

----------------------------------------------------------------------------
(* release                                                                 *)

release_version == ReadVersion("release", "release_confirm")

\* confirm(f"release {version}")
release_confirm ==
    /\ At("release_confirm")
    /\ IF confirm(ReleaseWord \o ver, response) THEN Goto("release_commit") ELSE Exit1
    /\ UNCHANGED <<fixed, ver, idx, repo, world, log, out, hist>>

GitStep(l, cmd, cont) ==
    /\ At(l)
    /\ \E ok \in BOOLEAN : CtxRun(cmd, ok, cont)
    /\ UNCHANGED <<fixed, ver, idx, repo, world, out, hist>>

\* As release_commit, but the branch is pushed next, before the tag exists.
release_commit_then_push == GitStep("release_commit", "git commit", Goto("release_push"))

release_commit == GitStep("release_commit", "git commit", Goto("release_tag"))
release_tag == GitStep("release_tag", "git tag", Goto("release_push"))
release_push == GitStep("release_push", "git push", Goto("release_push_tag"))
release_push_tag == GitStep("release_push_tag", "git push origin tag", Ret)

release ==
    \/ release_version \/ release_confirm \/ release_commit \/ release_tag
    \/ release_push \/ release_push_tag

----------------------------------------------------------------------------
(* release_flatpak                                                         *)

rf_version == ReadVersion("release_flatpak", "rf_checkout")
rf_checkout == GitStep("rf_checkout", "git checkout master", Goto("rf_pull"))
rf_pull == GitStep("rf_pull", "git pull", Goto("rf_branch"))
rf_branch == GitStep("rf_branch", "git checkout -b", Goto("rf_copy"))

\* shutil.copy(DIST / "generated-sources.json", target / "generated-sources.json")
rf_copy ==
    /\ At("rf_copy")
    /\ IF GeneratedSources \in Names(dist)
       THEN /\ flatpakRepo' = [flatpakRepo EXCEPT !.sources = TRUE]
            /\ log' = Append(log, Wrote("generated-sources.json"))
            /\ Goto("rf_spec")
       ELSE Throw /\ UNCHANGED <<flatpakRepo, log>>
    /\ UNCHANGED <<fixed, ver, idx, repo, dist, langDir, docsDir, wingetRepo, out, hist>>

\* re.sub(r"(        tag:) (.*)", fr"\1 v{version}", spec_content), written back
rf_spec ==
    /\ At("rf_spec")
    /\ flatpakRepo' = [flatpakRepo EXCEPT !.tag = <<"v">> \o ver]
    /\ log' = Append(log, Wrote("com.github.mtkennerly.ludusavi.yaml"))
    /\ Goto("rf_add")
    /\ UNCHANGED <<fixed, ver, idx, repo, dist, langDir, docsDir, wingetRepo, out, hist>>

rf_add == GitStep("rf_add", "git add", Goto("rf_commit"))
rf_commit == GitStep("rf_commit", "git commit", Goto("rf_push"))
rf_push == GitStep("rf_push", "git push origin HEAD", Ret)

release_flatpak ==
    \/ rf_version \/ rf_checkout \/ rf_pull \/ rf_branch \/ rf_copy \/ rf_spec
    \/ rf_add \/ rf_commit \/ rf_push

----------------------------------------------------------------------------
(* release_winget                                                          *)

rw_version == ReadVersion("release_winget", "rw_changelog")

\* changelog = textwrap.indent(latest_changelog(), "  ")
rw_changelog ==
    /\ At("rw_changelog")
    /\ out' = Return(Indent(latest_changelog(changelog), <<" ", " ">>))
    /\ Goto("rw_checkout")
    /\ UNCHANGED <<fixed, ver, idx, repo, world, log, hist>>

rw_checkout == GitStep("rw_checkout", "git checkout master", Goto("rw_pull"))
rw_pull == GitStep("rw_pull", "git pull upstream master", Goto("rw_branch"))
rw_branch == GitStep("rw_branch", "git checkout -b", Goto("rw_create"))

\* ctx.run("wingetcreate update ..."), which writes the manifest of the version
rw_create ==
    /\ At("rw_create")
    /\ \E ok \in BOOLEAN, moniker \in BOOLEAN :
          /\ ~ok => ~moniker
          /\ CtxRun("wingetcreate update", ok, Goto("rw_spec"))
          /\ wingetRepo' = IF ok
                THEN [manifest |-> TRUE, moniker |-> moniker, notes |-> <<>>]
                ELSE wingetRepo
    /\ UNCHANGED <<fixed, ver, idx, repo, dist, langDir, docsDir, flatpakRepo, out, hist>>

\* spec_content.replace("Moniker: ludusavi", "Moniker: ludusavi\nReleaseNotes: |-\n{changelog}\n...")
rw_spec ==
    /\ At("rw_spec")
    /\ IF wingetRepo.manifest
       THEN /\ wingetRepo' = [wingetRepo EXCEPT
                                !.notes = IF wingetRepo.moniker THEN out.val ELSE @]
            /\ log' = Append(log, Wrote("mtkennerly.ludusavi.locale.en-US.yaml"))
            /\ Goto("rw_validate")
       ELSE Throw /\ UNCHANGED <<wingetRepo, log>>
    /\ UNCHANGED <<fixed, ver, idx, repo, dist, langDir, docsDir, flatpakRepo, out, hist>>

rw_validate == GitStep("rw_validate", "winget validate", Goto("rw_add"))
rw_add == GitStep("rw_add", "git add", Goto("rw_commit"))
rw_commit == GitStep("rw_commit", "git commit", Goto("rw_push"))
rw_push == GitStep("rw_push", "git push origin HEAD", Ret)

release_winget ==
    \/ rw_version \/ rw_changelog \/ rw_checkout \/ rw_pull \/ rw_branch
    \/ rw_create \/ rw_spec \/ rw_validate \/ rw_add \/ rw_commit \/ rw_push


----------------------------------------------------------------------------
(* latest_changelog, called on its own                                     *)

latest_changelog_call ==
    /\ At("latest_changelog")
    /\ out' = Return(latest_changelog(changelog))
    /\ Ret
    /\ UNCHANGED <<fixed, ver, idx, repo, world, log, hist>>

----------------------------------------------------------------------------
(* The inputs                                                              *)

MaxCargoLines == 2
MaxChangelogLen == 5
MaxBytes == 1
MaxOptions == 2

V100 == <<"1", ".", "0", ".", "0">>
V110 == <<"1", ".", "1", ".", "0">>
V200rc == <<"2", ".", "0", ".", "0", "-", "R", "C">>

PackageLine == <<"[", "p", "a", "c", "k", "a", "g", "e", "]">>
VersionLine(v) == VersionEqSp \o <<Quote>> \o v \o <<Quote>>
CommentedVersionLine(v) == VersionLine(v) \o <<" ", "#", " ", "x">>
TightVersionLine(v) == VersionEq \o <<Quote>> \o v \o <<Quote>>
RustVersionLine(v) == <<"r", "u", "s", "t", "-">> \o VersionLine(v)

CargoVersions == {V100, V110}

CargoLines ==
    {PackageLine}
        \cup {VersionLine(v) : v \in CargoVersions}
        \cup {CommentedVersionLine(v) : v \in CargoVersions}
        \cup {TightVersionLine(v) : v \in CargoVersions}
        \cup {RustVersionLine(v) : v \in CargoVersions}

SeqsUpTo(S, n) == UNION {[1..k -> S] : k \in 0..n}

CargoFiles == SeqsUpTo(CargoLines, MaxCargoLines) \ {<<>>}

\* The manifests the tasks other than version are run on.
CargoSamples ==
    { <<PackageLine, VersionLine(V100)>>,
      <<PackageLine, VersionLine(V200rc)>>,
      <<PackageLine, CommentedVersionLine(V100)>>,
      <<PackageLine, RustVersionLine(V110), VersionLine(V100)>>,
      <<PackageLine>> }

ChangelogAlphabet == {"#", "a", " ", LF, CR}
Changelogs == SeqsUpTo(ChangelogAlphabet, MaxChangelogLen)

ChangelogSample ==
    Unreleased \o <<LF, "a", LF, "#", "#", " ", "v">> \o V100 \o <<LF, "b", LF>>

NewVersions == {V100, V110, V200rc}

BugFile(options) ==
    <<OtherLine, OptionsLine>>
        \o [i \in 1..Len(options) |-> Item(<<"v">> \o options[i])]
        \o <<Item(OtherText), OtherLine>>

BugSamples == {BugFile(o) : o \in SeqsUpTo(NewVersions, MaxOptions)}

MetainfoSample == [f \in MetainfoFiles |-> [shot |-> V100, releases |-> <<V100>>]]

DistSamples ==
    { NoDir,
      EmptyDir,
      Put(EmptyDir, StaleFile, Blob),
      Put(Put(EmptyDir, StaleFile, Blob), LegalTxt(V100), Text(<<"o", "l", "d">>)),
      Put(EmptyDir, GeneratedSources, Blob) }

ByteAlphabet == {"a", LF, CR, InvalidByte}
Contents == SeqsUpTo(ByteAlphabet, MaxBytes)

EnUs == EnUsFtl
OldEnUs == <<"o", "l", "d", "-">> \o EnUsFtl
De == <<"d", "e">> \o FtlSuffix
Fr == <<"f", "r">> \o FtlSuffix
It == <<"i", "t">> \o FtlSuffix
Readme == <<"R", "E", "A", "D", "M", "E">>

TranslationNames == {De, Fr, It}

Dirs(names, contents) == UNION {[S -> contents] : S \in SUBSET names}

LangSample == [n \in {EnUs, Readme} |-> <<"a">>]

\* Two untranslated languages and a translated one.
RemoteSample == [n \in TranslationNames |-> IF n = It THEN <<"a", LF>> ELSE <<LF>>]

Responses ==
    {ReleaseWord \o v : v \in {V100, V200rc}}
        \cup { <<>>,
               <<"y", "e", "s">>,
               <<"R", "E", "L", "E", "A", "S", "E", " ">> \o V100,
               <<"R", "e", "l", "e", "a", "s", "e", " ">> \o V100,
               ReleaseWord \o <<"2", ".", "0", ".", "0", "-", "r", "c">>,
               ReleaseWord,
               ReleaseWord \o V100 \o <<" ">>,
               <<"r", "e", "l", "e", "a", "s", "e">> \o V100 }

FlatpakRepoSample == [sources |-> FALSE, tag |-> <<"v">> \o V100]
WingetRepoSample == [manifest |-> FALSE, moniker |-> FALSE, notes |-> <<>>]

Tasks ==
    { "version", "legal", "flatpak", "lang", "clean", "docs", "docs_cli",
      "docs_schema", "prerelease", "release", "release_flatpak", "release_winget" }

Args == [new_version : NewVersions, update_lang : BOOLEAN]

Sample ==
    [ task |-> "version",
      arg |-> [new_version |-> V110, update_lang |-> TRUE],
      response |-> ReleaseWord \o V100,
      cargo |-> <<PackageLine, VersionLine(V100)>>,
      changelog |-> ChangelogSample,
      bugYaml |-> BugFile(<<V100>>),
      dist |-> EmptyDir,
      langDir |-> LangSample,
      remote |-> RemoteSample ]

\* The task s.task is invoked on the files of s.
Invoked(s) ==
    /\ task = s.task
    /\ pc = s.task
    /\ stack = <<>>
    /\ status = "running"
    /\ arg = s.arg
    /\ ver = <<>>
    /\ idx = 1
    /\ response = s.response
    /\ cargo = s.cargo
    /\ changelog = s.changelog
    /\ bugYaml = s.bugYaml
    /\ metainfo = MetainfoSample
    /\ dist = s.dist
    /\ langDir = s.langDir
    /\ remote = s.remote
    /\ docsDir = {}
    /\ flatpakRepo = FlatpakRepoSample
    /\ wingetRepo = WingetRepoSample
    /\ log = <<>>
    /\ out = NoResult
    /\ pulled = s.langDir
    /\ dist0 = s.dist
    /\ bug0 = s.bugYaml

----------------------------------------------------------------------------
(* The specifications                                                      *)

\* get_version on every manifest of up to MaxCargoLines lines.
InitVersion == \E c \in CargoFiles : Invoked([Sample EXCEPT !.cargo = c])
SpecVersion == InitVersion /\ [][version]_vars

\* latest_changelog on every changelog of up to MaxChangelogLen characters.
InitChangelog ==
    \E c \in Changelogs :
        Invoked([Sample EXCEPT !.task = "latest_changelog", !.changelog = c])
SpecChangelog == InitChangelog /\ [][latest_changelog_call]_vars

\* lang, whatever the platform exports.
InitLang ==
    \E r \in Dirs(TranslationNames, Contents),
       l \in Dirs({OldEnUs}, {<<>>, <<LF>>}),
       e \in {<<"a">>, <<LF>>} :
        Invoked([Sample EXCEPT !.task = "lang", !.remote = r,
                               !.langDir = Overlay([n \in {EnUs, Readme} |-> e], l)])
SpecLang == InitLang /\ [][lang]_vars

\* legal, whatever dist holds.
InitLegal ==
    \E c \in CargoSamples, d \in DistSamples :
        Invoked([Sample EXCEPT !.task = "legal", !.cargo = c, !.dist = d])
SpecLegal == InitLegal /\ [][legal]_vars

\* release, whatever the operator types.
InitRelease ==
    \E c \in CargoSamples, r \in Responses :
        Invoked([Sample EXCEPT !.task = "release", !.cargo = c, !.response = r])
SpecRelease == InitRelease /\ [][release]_vars


\* prerelease, whatever the manifest, the issue template and dist hold.
InitPrerelease ==
    \E a \in Args, c \in CargoSamples, d \in DistSamples, b \in BugSamples :
        Invoked([Sample EXCEPT !.task = "prerelease", !.arg = a, !.cargo = c,
                               !.dist = d, !.bugYaml = b])
NextPrerelease == prerelease \/ clean \/ legal \/ flatpak \/ docs \/ lang
SpecPrerelease == InitPrerelease /\ [][NextPrerelease]_vars

\* Any task, invoked once.
Init ==
    \E t \in Tasks, a \in Args, c \in CargoSamples, d \in DistSamples :
        Invoked([Sample EXCEPT !.task = t, !.arg = a, !.cargo = c, !.dist = d])
Next ==
    \/ version \/ legal \/ flatpak \/ lang \/ clean \/ docs \/ prerelease
    \/ release \/ release_flatpak \/ release_winget
Spec == Init /\ [][Next]_vars

----------------------------------------------------------------------------
(* Properties of get_version                                               *)

HasVersionLine(lines) == \E i \in DOMAIN lines : StartsWith(lines[i], VersionEq)

FirstVersionLine(lines) ==
    lines[CHOOSE i \in DOMAIN lines :
            /\ StartsWith(lines[i], VersionEq)
            /\ \A j \in 1..(i - 1) : ~StartsWith(lines[j], VersionEq)]

\* The text between the first quote of a line and the next one.
QuotedString(line) ==
    LET a == IndexOf(line, Quote, 1)
        b == IndexOf(line, Quote, a + 1)
    IN  SubSeq(line, a + 1, b - 1)

\* C3: for every Cargo.toml with a line beginning with `version =`,
\* get_version returns the quoted string of the first such line, without the
\* quotes and with nothing else of the line; with no such line it raises
\* 'Could not determine version'.
C3_ExactQuotedString ==
    status # "running" =>
        IF HasVersionLine(cargo)
        THEN out = Return(QuotedString(FirstVersionLine(cargo)))
        ELSE out = Raise("Could not determine version")

----------------------------------------------------------------------------
(* Properties of latest_changelog                                          *)

RECURSIVE FirstHeading(_, _)
FirstHeading(lines, i) ==
    IF i > Len(lines) THEN 0
    ELSE IF IsHeading(lines[i]) THEN i
    ELSE FirstHeading(lines, i + 1)

\* The lines after the first heading and before the second (or the end).
BetweenHeadings(lines) ==
    LET h1 == FirstHeading(lines, 1)
        h2 == FirstHeading(lines, h1 + 1)
    IN  SubSeq(lines, h1 + 1, IF h2 = 0 THEN Len(lines) ELSE h2 - 1)

\* C2: for every CHANGELOG.md (here: every one with a heading),
\* latest_changelog returns the text between the first and the second
\* heading line, stripped: no line before the first heading and no line at
\* or after the second is part of the result.
C2_OnlyBetweenHeadings ==
    (status = "done" /\ FirstHeading(SplitLines(changelog), 1) # 0) =>
        out.val = Strip(Join(BetweenHeadings(SplitLines(changelog)), <<LF>>), Whitespace)

----------------------------------------------------------------------------
(* Properties of lang                                                      *)

\* The translation files after the pull: *.ftl other than en-US.ftl.
Translations == {n \in Globbed(pulled) : n # EnUs}

SameBytes(n) == {m \in Translations : pulled[m] = pulled[n]}

SameText(n) ==
    {m \in Translations : ~Skipped(m) /\ read_text(pulled[m]) = read_text(pulled[n])}

Deleted == DOMAIN pulled \ DOMAIN langDir

----------------------------------------------------------------------------
(* Properties of legal                                                     *)

BundleFailed == \E i \in DOMAIN log : log[i] = Cmd("cargo lichking bundle", FALSE)

ZipWritten == \E i \in DOMAIN log : log[i] = Wrote("legal.zip")

\* C4 as stated: a failure of the bundling command never terminates the
\* task, which goes on to normalize the text and to write the zip.
C4_NeverTerminates ==
    (BundleFailed /\ status # "running") => (status = "done" /\ ZipWritten)

\* C4 as amended: the failure itself raises nothing, the task goes on to read
\* the bundle text; it ends there, with no zip written, exactly when no such
\* file exists, and otherwise writes the normalized text and the zip of it.
C4_SwallowedUntilRead ==
    BundleFailed =>
        /\ pc # "legal_bundle"
        /\ status = "raised" =>
              pc = "legal_normalize" /\ LegalTxt(ver) \notin Names(dist) /\ ~ZipWritten
        /\ (pc = "legal_normalize" /\ LegalTxt(ver) \in Names(dist)) => status = "running"
        /\ status = "done" =>
              /\ ZipWritten
              /\ {LegalTxt(ver), LegalZip(ver)} \subseteq Names(dist)
              /\ dist.files[LegalZip(ver)] =
                    Zip(LegalTxt(ver), dist.files[LegalTxt(ver)].body)
              /\ Normalize(dist.files[LegalTxt(ver)].body) = dist.files[LegalTxt(ver)].body

C4_Witness ==
    /\ BundleFailed
    /\ status = "done"
    /\ LegalZip(ver) \in Names(dist)
    /\ LegalTxt(ver) \notin Names(dist0)

----------------------------------------------------------------------------
(* Properties of release                                                   *)

ReleaseOrder == <<"git commit", "git tag", "git push", "git push origin tag">>

\* C6: the git commands of release run in the order commit, tag, push, push
\* of the tag, each only after the one before succeeded.
C6_GitOrder ==
    /\ Len(log) <= Len(ReleaseOrder)
    /\ \A i \in DOMAIN log :
          /\ log[i].what = ReleaseOrder[i]
          /\ i < Len(log) => log[i].ok

C6_Witness == status = "done" /\ Len(log) = Len(ReleaseOrder) /\ log[Len(log)].ok

Accepted == Lower(response) = Lower(ReleaseWord \o get_version(cargo).val)

\* C8: release runs no git command unless the response equals
\* 'release <version>' case-insensitively; on any other response it exits
\* with status 1 and has run none.
C8_ConfirmedFirst ==
    /\ log # <<>> => get_version(cargo).kind = "return" /\ Accepted
    /\ (get_version(cargo).kind = "return" /\ ~Accepted /\ status # "running")
          => status = "exit1" /\ log = <<>>

C8_Witness ==
    /\ status = "exit1"
    /\ log = <<>>
    /\ Lower(response) = Lower(ReleaseWord)


----------------------------------------------------------------------------
(* Properties of every task                                                *)

Swallowed(e) == e.what = "cargo lichking bundle"

Failed(e) == e.kind = "run" /\ ~e.ok /\ ~Swallowed(e)

\* C5: apart from license bundling, a failed external command ends the task
\* at that step: it is the last entry of the log and the task has raised, so
\* no command and no file write follows it and it is not run again; and the
\* step that fails changes no file, so what was written before stays written.
C5_StopsAtFailure ==
    /\ [](\A i \in DOMAIN log : Failed(log[i]) => (i = Len(log) /\ status = "raised"))
    /\ [][(Len(log') > Len(log) /\ Failed(log'[Len(log')]))
              => (repo' = repo /\ world' = world)]_vars

C5_Witness ==
    /\ task = "prerelease"
    /\ status = "raised"
    /\ log[Len(log)] = Cmd(SchemaCommands[2], FALSE)
    /\ SchemaCommands[1] \in docsDir
    /\ SchemaCommands[2] \notin docsDir

----------------------------------------------------------------------------
(* Properties of prerelease                                                *)

Patches == {Wrote("Cargo.toml"), Wrote("CHANGELOG.md"), Wrote("bug.yaml"), Wrote("metainfo.xml")}

\* The step of prerelease a log entry belongs to.
Phase(e) ==
    IF e \in Patches THEN 1
    ELSE IF e.what = "cargo build" THEN 2
    ELSE IF e = Wrote("dist") THEN 3
    ELSE IF e.what \in {"cargo lichking bundle", "legal.txt", "legal.zip"} THEN 4
    ELSE IF e.what = "flatpak-cargo-generator" THEN 5
    ELSE IF e.what = "crowdin pull" THEN 7
    ELSE 6

Pulled == \E i \in DOMAIN log : log[i].what = "crowdin pull"

\* The order of C7: the patches, cargo build, clean, legal, flatpak, docs, and
\* last lang, which runs if and only if update_lang is true.
PrereleaseOrder ==
    /\ \A i, j \in DOMAIN log : i < j => Phase(log[i]) <= Phase(log[j])
    /\ Pulled => arg.update_lang
    /\ status = "done" => (Pulled <=> arg.update_lang)
    /\ status = "done" => \A k \in 1..6 : \E i \in DOMAIN log : Phase(log[i]) = k

\* C7: the steps of prerelease run in that order, so that when it completes
\* dist holds exactly ludusavi-v<new_version>-legal.txt,
\* ludusavi-v<new_version>-legal.zip and generated-sources.json, whatever it
\* held before.
C7_OrderAndDist ==
    /\ PrereleaseOrder
    /\ status = "done" =>
          Names(dist) = { LegalTxt(arg.new_version), LegalZip(arg.new_version),
                          GeneratedSources }

\* What C7 says of dist, for the version get_version reads back.
PrereleaseDist ==
    status = "done" => Names(dist) = {LegalTxt(ver), LegalZip(ver), GeneratedSources}

\* The texts of the list items of bug.yaml, in order.
RECURSIVE ItemsOf(_)
ItemsOf(lines) ==
    IF lines = <<>> THEN <<>>
    ELSE (IF Head(lines).kind = "item" THEN <<Head(lines).text>> ELSE <<>>)
             \o ItemsOf(Tail(lines))

Front(q) == SubSeq(q, 1, Len(q) - 1)

IsVersionEntry(t) == VersionEntryEnd(t) = Len(t) + 1

\* The options are one or more entries vX.Y.Z followed by Other.
VersionsThenOther(lines) ==
    LET items == ItemsOf(lines)
    IN  /\ Len(items) >= 2
        /\ items[Len(items)] = OtherText
        /\ \A i \in 1..(Len(items) - 1) : IsVersionEntry(items[i])

BugPatched == pc \notin {"prerelease", "pre_changelog", "pre_bug_insert", "pre_bug_remove"}

\* C9: when the options are version entries followed by Other, prerelease
\* puts v<new_version> first and removes the version entry before Other: as
\* many version entries as before, Other last, the versions of the runs so
\* far newest first (each run prepends its own to the list the run before
\* left, so after any number of runs the list reads newest first).
C9_NewestFirst ==
    (BugPatched /\ VersionsThenOther(bug0)) =>
        LET old == ItemsOf(bug0)
            new == ItemsOf(bugYaml)
        IN  /\ new = <<(<<"v">> \o arg.new_version)>> \o Front(Front(old)) \o <<OtherText>>
            /\ Len(new) = Len(old)
            /\ new[Len(new)] = OtherText
            /\ IsVersionEntry(<<"v">> \o arg.new_version) => VersionsThenOther(bugYaml)
            /\ \A i \in DOMAIN bugYaml :
                  bugYaml[i].kind # "item" => bugYaml[i] = bug0[i]

C9_Witness ==
    /\ BugPatched
    /\ VersionsThenOther(bug0)
    /\ Len(ItemsOf(bug0)) = 3
    /\ ItemsOf(bug0)[1] # ItemsOf(bug0)[2]
    /\ ItemsOf(bugYaml)[2] = ItemsOf(bug0)[1]
    /\ ItemsOf(bugYaml)[1] # ItemsOf(bug0)[1]
    /\ status = "done"

====
